---------------------------- MODULE Spec2Model ----------------------------
(***************************************************************************)
(* A model of marklookup/get_mark_of_cpu.py: the class CpuAssessor (the    *)
(* reference index built by init, the match cascade _nmatch, the guarded   *)
(* entry point assess) and the two structured output paths (get_mark_json  *)
(* and the command line with --json).                                      *)
(*                                                                         *)
(* A Python str is modelled as a sequence of one-character strings, so     *)
(* that replace, split, strip and the regular expressions of the source    *)
(* are computed character by character.  A Python dict is modelled as the  *)
(* sequence of its items in insertion order.                               *)
(***************************************************************************)
EXTENDS Integers, Sequences, FiniteSets, TLC

(***************************************************************************)
(* Characters and character classes of the regular expressions.            *)
(***************************************************************************)
Digit == {"0", "1", "2", "3", "4", "5", "6", "7", "8", "9"}

Upper == {"A", "B", "C", "D", "E", "F", "G", "H", "I", "J", "K", "L", "M",
          "N", "O", "P", "Q", "R", "S", "T", "U", "V", "W", "X", "Y", "Z"}

Lower == {"a", "b", "c", "d", "e", "f", "g", "h", "i", "j", "k", "l", "m",
          "n", "o", "p", "q", "r", "s", "t", "u", "v", "w", "x", "y", "z"}

\* \w of the re module: letters, digits and the underscore.
WordChar == Upper \cup Lower \cup Digit \cup {"_"}

\* the characters str.strip() removes
Whitespace == {" ", "\t"}

\* the character class [ \-;,@] of re.split in _keytoset
SplitChar == {" ", "-", ";", ",", "@"}

SetMin(S) == CHOOSE i \in S : \A j \in S : i <= j

SetMax(S) == CHOOSE i \in S : \A j \in S : j <= i

(***************************************************************************)
(* str operations used by the source.                                      *)
(***************************************************************************)
\* the positions at which the non-empty string p occurs in s
Occ(s, p) ==
    {i \in 1..(Len(s) - Len(p) + 1) : \A j \in 1..Len(p) : s[i + j - 1] = p[j]}

\* p in s
Contains(s, p) == Occ(s, p) # {}

Suffix(s, i) == SubSeq(s, i, Len(s))

\* s.replace(p, ''): the occurrences are found left to right, without overlap
RECURSIVE Remove(_, _)
RemoveAt(s, p, at) ==
    IF at = {} THEN s
    ELSE SubSeq(s, 1, SetMin(at) - 1) \o Remove(Suffix(s, SetMin(at) + Len(p)), p)

Remove(s, p) == RemoveAt(s, p, Occ(s, p))

\* s with what begins at the first of the positions at cut off
Before(s, at) == IF at = {} THEN s ELSE SubSeq(s, 1, SetMin(at) - 1)

\* s.split(p)[0]
SplitFirst(s, p) == Before(s, Occ(s, p))

\* s from the first to the last of the positions keep
Between(s, keep) ==
    IF keep = {} THEN <<>> ELSE SubSeq(s, SetMin(keep), SetMax(keep))

\* s.strip()
Strip(s) == Between(s, {i \in 1..Len(s) : s[i] \notin Whitespace})

\* s.startswith(p)
StartsWith(s, p) == 1 \in Occ(s, p)

(***************************************************************************)
(* The words the source looks for.                                         *)
(***************************************************************************)
sIntel == <<"I", "n", "t", "e", "l">>
sAMD   == <<"A", "M", "D">>
sR     == <<"(", "R", ")">>
sTM    == <<"(", "T", "M", ")">>
sCPU   == <<" ", "C", "P", "U">>
sDuo   == <<"D", "u", "o">>
sW     == <<"w", "/">>
sWith  == <<" ", "w", "i", "t", "h">>
sComma == <<",">>
sAt    == <<"@">>


(***************************************************************************)
(* int(m) and str(n).  int() raises ValueError on text that is not an      *)
(* optionally signed decimal numeral (surrounding whitespace and single    *)
(* underscores between digits are accepted).                               *)
(***************************************************************************)
DigitSeq == <<"0", "1", "2", "3", "4", "5", "6", "7", "8", "9">>

DigitVal(c) == (CHOOSE n \in 1..Len(DigitSeq) : DigitSeq[n] = c) - 1

\* the stripped text t without its sign
Unsigned(t) == IF t # <<>> /\ t[1] \in {"+", "-"} THEN Suffix(t, 2) ELSE t

\* the numeral without its sign
Numeral(s) == Unsigned(Strip(s))

IsNumeral(d) ==
    /\ d # <<>>
    /\ \A i \in 1..Len(d) : d[i] \in Digit \cup {"_"}
    /\ d[1] # "_" /\ d[Len(d)] # "_"
    /\ \A i \in 1..(Len(d) - 1) : ~(d[i] = "_" /\ d[i + 1] = "_")

IsIntText(s) == IsNumeral(Numeral(s))

RECURSIVE NatOf(_)
NatOf(d) ==
    IF d = <<>> THEN 0
    ELSE IF d[Len(d)] = "_" THEN NatOf(SubSeq(d, 1, Len(d) - 1))
    ELSE 10 * NatOf(SubSeq(d, 1, Len(d) - 1)) + DigitVal(d[Len(d)])

\* int(s), for s with IsIntText(s)
Signed(t, n) == IF t[1] = "-" THEN 0 - n ELSE n

ParseInt(s) == Signed(Strip(s), NatOf(Numeral(s)))

RECURSIVE NatToStr(_)
NatToStr(n) ==
    IF n < 10 THEN <<DigitSeq[n + 1]>>
    ELSE NatToStr(n \div 10) \o <<DigitSeq[(n % 10) + 1]>>

\* str(n)
IntToStr(n) == IF n < 0 THEN <<"-">> \o NatToStr(0 - n) ELSE NatToStr(n)

(***************************************************************************)
(* dict: the sequence of items [k, v] in insertion order.  Assigning to a  *)
(* key that is present replaces its value and keeps its position.          *)
(***************************************************************************)
DictKeys(d) == {d[i].k : i \in 1..Len(d)}

\* d.get(k, dflt)
DictGet(d, k, dflt) ==
    IF \E i \in 1..Len(d) : d[i].k = k
    THEN d[CHOOSE i \in 1..Len(d) : d[i].k = k].v
    ELSE dflt

\* d[k] = v
DictSet(d, k, v) ==
    IF \E i \in 1..Len(d) : d[i].k = k
    THEN [i \in 1..Len(d) |-> IF d[i].k = k THEN [k |-> k, v |-> v] ELSE d[i]]
    ELSE Append(d, [k |-> k, v |-> v])

\* {key(i): val(i) for i in items}: a dict comprehension over items
RECURSIVE DictFrom(_)
DictFrom(items) ==
    IF items = <<>> THEN <<>>
    ELSE DictSet(DictFrom(SubSeq(items, 1, Len(items) - 1)),
                 items[Len(items)].k, items[Len(items)].v)

(***************************************************************************)
(* CpuAssessor._keytoset                                                   *)
(***************************************************************************)
\* re.split(r'[ \-;,@]+', k), without the empty strings
Tokens(k) ==
    LET starts == {i \in 1..Len(k) :
                      k[i] \notin SplitChar /\ (i = 1 \/ k[i - 1] \in SplitChar)}
        last(i) == SetMin({j \in i..Len(k) : j = Len(k) \/ k[j + 1] \in SplitChar})
    IN  {SubSeq(k, i, last(i)) : i \in starts}

\* a faulty line 100-106, for C14: D is the first digit alone, and L is added
\* as one element
DigitsAndLettersWhole(t, nD) == {SubSeq(t, 1, 1), SubSeq(t, 2, Len(t))}

\* the groups D and L of re.match(r'^(?P<D>\d+)(?P<L>\w+)$', t), L letter
\* by letter, for a token t whose first nD characters are its leading digits
DigitsAndLetters(t, nD) ==
    {SubSeq(t, 1, nD)} \cup {<<t[i]>> : i \in (nD + 1)..Len(t)}

\* what one token t adds to the set s
TokenParts(t) ==
    LET allDigits == \A i \in 1..Len(t) : t[i] \in Digit
        m == /\ Len(t) >= 2
             /\ t[1] \in Digit
             /\ \A i \in 1..Len(t) : t[i] \in WordChar
    IN  IF Contains(t, sDuo) THEN {}
        ELSE IF allDigits \/ ~m THEN {t}
        ELSE DigitsAndLetters(t, SetMin({i \in 1..Len(t) : t[i] \notin Digit}) - 1)

keytoset(k) == UNION {TokenParts(t) : t \in Tokens(k)}

(***************************************************************************)
(* The state of the class CpuAssessor, and what the last call gave.        *)
(***************************************************************************)
VARIABLES
    is_initialized,   \* CpuAssessor.__is_initialized
    marks,            \* CpuAssessor.__marks: name -> (mark, line)
    marksnoat,        \* CpuAssessor.__marksnoat
    markswithsets,    \* CpuAssessor.__markswithsets: name -> toks, mark
    built,            \* history: some call of init has run to its last line
    attempts,         \* history: the number of calls of init that read a file
    last,             \* the last call: its name, its arguments and its outcome
    answers           \* history: the first result assess returned, per query

vars ==
    <<is_initialized, marks, marksnoat, markswithsets, built, attempts, last,
      answers>>

(***************************************************************************)
(* CpuAssessor._nmatch                                                     *)
(***************************************************************************)
\* re.match(r'.*(?P<keep>(Intel|AMD).*)', cx): the greedy .* leaves to keep
\* the text from the last of the places at where Intel or AMD begins
KeepAt(cx, at) == IF at = {} THEN cx ELSE Suffix(cx, SetMax(at))

KeepFrom(cx) == KeepAt(cx, Occ(cx, sIntel) \cup Occ(cx, sAMD))

StripMarkers(x) == Remove(Remove(Remove(x, sR), sTM), sCPU)

\* cx of lines 115-123
Normalize14(x) ==
    SplitFirst(Strip(SplitFirst(KeepFrom(StripMarkers(x)), sW)), sComma)

\* cx of lines 127-128
Normalize5(cx) == IF StartsWith(cx, sAMD) THEN SplitFirst(cx, sWith) ELSE cx

\* the keys of the items sel, in their order
KeysOf(sel) == [i \in 1..Len(sel) |-> sel[i].k]

\* line 143
Candidates1(mws, mys) ==
    LET Test(e) == e.v.toks \subseteq mys IN KeysOf(SelectSeq(mws, Test))

\* line 147
Threshold2(x) == IF Contains(x, sAMD) THEN 3 ELSE 4

\* a faulty line 148, for C4: > threshold2 in place of >= threshold2
Candidates2Above(mws, mys, x) ==
    LET Test(e) == Cardinality(mys \cap e.v.toks) > Threshold2(x)
    IN  KeysOf(SelectSeq(mws, Test))

\* line 148
Candidates2(mws, mys, x) ==
    LET Test(e) == Cardinality(mys \cap e.v.toks) >= Threshold2(x)
    IN  KeysOf(SelectSeq(mws, Test))

\* a < b of two sets
ProperSubset(a, b) == a \subseteq b /\ a # b

\* line 152
Candidates3(c2, mys) ==
    LET Test(c) == ProperSubset(mys, keytoset(c)) IN SelectSeq(c2, Test)

\* the candidates of the loop of lines 156-160 that pass its test, in order
TokenEqual(c3, mys) ==
    LET Test(c) == keytoset(Strip(SplitFirst(c, sAt))) = mys
    IN  SelectSeq(c3, Test)

\* re.match(r'.*(?P<model>[A-Z]\d{1,4}).*', x): the places where model can begin
ModelAt(x) == {i \in 1..(Len(x) - 1) : x[i] \in Upper /\ x[i + 1] \in Digit}

\* a faulty line 164, for C5: \d{1,3} in place of \d{1,4}
ModelFromThree(x, i) ==
    SubSeq(x, i, i + SetMax({j \in 1..3 : \A h \in 1..j :
                                i + h <= Len(x) /\ x[i + h] \in Digit}))

\* the letter at i and the digits after it, four at most
ModelFrom(x, i) ==
    SubSeq(x, i, i + SetMax({j \in 1..4 : \A h \in 1..j :
                                i + h <= Len(x) /\ x[i + h] \in Digit}))

\* the greedy .* leaves to model the last place where it can begin
ModelOf(x) == ModelFrom(x, SetMax(ModelAt(x)))

\* lines 164-172
Candidates4(mws, x) ==
    LET Test(e) == ModelOf(x) \in e.v.toks
    IN  IF ModelAt(x) = {} THEN <<>> ELSE KeysOf(SelectSeq(mws, Test))

Result(ma, meth, nline, line, det) ==
    [mark |-> ma, step |-> meth, nline |-> nline, line |-> line, det |-> det]

\* return ret[0], (step, ret[1], name), det
Return(ret, step, name) == Result(ret[1], step, ret[2], name, <<>>)

\* faulty lines 174-175, for C6: line 174 left out
FailedNoDet(x, mys, c1, c2, c3, c4) == Result(0, "FAILED", 0, <<>>, <<>>)

\* lines 174-175
Failed(x, mys, c1, c2, c3, c4) ==
    Result(0, "FAILED", 0, <<>>, <<[x |-> x, mys |-> mys], c1, c2, c3, c4>>)

\* whether the loop of lines 156-160 returns
Clever32Accepts(c32) == c32 # <<>>

\* lines 164-175, with the candidates computed
Desperate(mk, x, mys, c1, c2, c3, c4) ==
    IF Len(c4) = 1
    THEN Return(DictGet(mk, c4[1], <<0, 0>>), "DESPERATE_1", c4[1])
    ELSE Failed(x, mys, c1, c2, c3, c4)

\* lines 156-175
Clever32(mk, mws, x, mys, c1, c2, c3, c32) ==
    IF Clever32Accepts(c32)
    THEN Return(DictGet(mk, c32[1], <<0, 0>>), "CLEVER_3_2", c32[1])
    ELSE Desperate(mk, x, mys, c1, c2, c3, Candidates4(mws, x))

\* lines 152-175
Clever3(mk, mws, x, mys, c1, c2, c3) ==
    IF Len(c3) = 1
    THEN Return(DictGet(mk, c3[1], <<0, 0>>), "CLEVER_3_1", c3[1])
    ELSE Clever32(mk, mws, x, mys, c1, c2, c3, TokenEqual(c3, mys))

\* lines 147-175
Clever2(mk, mws, x, mys, c1, c2) ==
    IF Len(c2) = 1
    THEN Return(DictGet(mk, c2[1], <<0, 0>>), "CLEVER_2", c2[1])
    ELSE Clever3(mk, mws, x, mys, c1, c2, Candidates3(c2, mys))

\* faulty lines 143-175, for C7: the first candidate taken when there are several
Clever1First(mk, mws, x, mys, c1) ==
    IF Len(c1) >= 1
    THEN Return(DictGet(mk, c1[1], <<0, 0>>), "CLEVER_1", c1[1])
    ELSE Clever2(mk, mws, x, mys, c1, Candidates2(mws, mys, x))

\* lines 143-175
Clever1(mk, mws, x, mys, c1) ==
    IF Len(c1) = 1
    THEN Return(DictGet(mk, c1[1], <<0, 0>>), "CLEVER_1", c1[1])
    ELSE Clever2(mk, mws, x, mys, c1, Candidates2(mws, mys, x))

\* lines 142-175
Clever(mk, mws, x, mys) == Clever1(mk, mws, x, mys, Candidates1(mws, mys))

\* lines 132-175, cx being the text of line 128
Simple3(mk, noat, mws, x0, cx, ret) ==
    IF ret[1] # 0 THEN Return(ret, "SIMPLE_3", cx)
    ELSE Clever(mk, mws, StripMarkers(x0), keytoset(StripMarkers(x0)))

\* lines 129-175
Simple2(mk, noat, mws, x0, cx, ret) ==
    IF ret[1] # 0 THEN Return(ret, "SIMPLE_2", cx)
    ELSE Simple3(mk, noat, mws, x0, cx, DictGet(noat, cx, <<0, 0>>))

\* lines 124-175, cx being the text of line 123
Simple1(mk, noat, mws, x0, cx, ret) ==
    IF ret[1] # 0 THEN Return(ret, "SIMPLE_1", cx)
    ELSE Simple2(mk, noat, mws, x0, Normalize5(cx),
                 DictGet(mk, Normalize5(cx), <<0, 0>>))

\* faulty lines 112-126, for C16: the lookup of SIMPLE_1 made before that of
\* SIMPLE_0
Simple0Late(mk, noat, mws, x0, ret) ==
    IF DictGet(mk, Normalize14(x0), <<0, 0>>)[1] # 0
    THEN Return(DictGet(mk, Normalize14(x0), <<0, 0>>), "SIMPLE_1", Normalize14(x0))
    ELSE IF ret[1] # 0 THEN Return(ret, "SIMPLE_0", x0)
    ELSE Simple2(mk, noat, mws, x0, Normalize5(Normalize14(x0)),
                 DictGet(mk, Normalize5(Normalize14(x0)), <<0, 0>>))

\* lines 113-175
Simple0(mk, noat, mws, x0, ret) ==
    IF ret[1] # 0 THEN Return(ret, "SIMPLE_0", x0)
    ELSE Simple1(mk, noat, mws, x0, Normalize14(x0),
                 DictGet(mk, Normalize14(x0), <<0, 0>>))

nmatch(mk, noat, mws, x0) ==
    Simple0(mk, noat, mws, x0, DictGet(noat, x0, <<0, 0>>))

(***************************************************************************)
(* A marks file as csv.DictReader gives it: whether open() succeeds, and   *)
(* the rows, each a mapping from the columns of the header to a value.  A  *)
(* value is a str, or None for the column a short row leaves out.          *)
(***************************************************************************)
Str(s) == [none |-> FALSE, s |-> s]

NoneVal == [none |-> TRUE, s |-> <<>>]

NameAliases == <<"name", "NAME", "CPUNAME">>

MarkAliases == <<"cpumark", "CPUMARK">>

\* the first alias that is a key of r; "" when the last except KeyError is taken
FirstAlias(r, aliases) ==
    LET at == {i \in 1..Len(aliases) : aliases[i] \in DOMAIN r}
    IN  IF at = {} THEN "" ELSE aliases[SetMin(at)]

ExcNone      == "none"
ExcOpen      == "OSError"
ExcNoNameCol == "RuntimeError: Unable to guess which column has the name of the CPU"
ExcNoMarkCol == "RuntimeError: Unable to guess which column has the mark of the CPU"
ExcNoneType  == "TypeError"
ExcNotInt    == "ValueError"
ExcNotInit   == "RuntimeError: Class CpuAssessor must be initialized before use"

(***************************************************************************)
(* CpuAssessor.init: the loop over the rows.  It assigns into __marks as   *)
(* it goes, so what it had inserted when a row raises stays inserted.      *)
(***************************************************************************)
RECURSIVE ReadRows(_, _, _)
\* lines 72-81 for the row r, whose name is nam and whose mark column is mcol
ReadMark(mk, rows, line, r, nam, mcol) ==
    IF ~(Contains(nam, sIntel) \/ Contains(nam, sAMD))
    THEN ReadRows(mk, Tail(rows), line + 1)
    ELSE IF mcol = "" THEN [marks |-> mk, exc |-> ExcNoMarkCol]
    ELSE IF r[mcol].none THEN [marks |-> mk, exc |-> ExcNoneType]
    ELSE IF ~IsIntText(r[mcol].s) THEN [marks |-> mk, exc |-> ExcNotInt]
    ELSE ReadRows(DictSet(mk, nam, <<ParseInt(r[mcol].s), line>>),
                  Tail(rows), line + 1)

\* lines 62-81 for the row r, whose name column is ncol
ReadRow(mk, rows, line, r, ncol) ==
    IF ncol = "" THEN [marks |-> mk, exc |-> ExcNoNameCol]
    ELSE IF r[ncol].none THEN [marks |-> mk, exc |-> ExcNoneType]
    ELSE ReadMark(mk, rows, line, r, r[ncol].s, FirstAlias(r, MarkAliases))

ReadRows(mk, rows, line) ==
    IF rows = <<>> THEN [marks |-> mk, exc |-> ExcNone]
    ELSE ReadRow(mk, rows, line, Head(rows), FirstAlias(Head(rows), NameAliases))

\* the items under the key with the "@" and what follows it stripped
StripAt(sel) ==
    [i \in 1..Len(sel) |-> [k |-> Strip(SplitFirst(sel[i].k, sAt)), v |-> sel[i].v]]

\* s in reverse order
Reverse(s) == [i \in 1..Len(s) |-> s[Len(s) + 1 - i]]

\* a faulty line 83, for C3: the first item with a stripped key is the one kept
NoAtOfFirstWins(mk) ==
    LET Test(e) == Contains(e.k, sAt)
    IN  DictFrom(Reverse(StripAt(SelectSeq(mk, Test))))

\* line 83: the items of __marks whose key has an "@", under the stripped key
NoAtOf(mk) ==
    LET Test(e) == Contains(e.k, sAt) IN DictFrom(StripAt(SelectSeq(mk, Test)))

\* lines 84-85
WithSetsOf(mk) ==
    [i \in 1..Len(mk) |->
        [k |-> mk[i].k, v |-> [toks |-> keytoset(mk[i].k), mark |-> mk[i].v]]]

\* the class attributes, as one value
Cls == [is_initialized |-> is_initialized, marks |-> marks,
        marksnoat |-> marksnoat, markswithsets |-> markswithsets]

\* whether the guard of line 55 makes the call return at once
InitSkips(c) == c.is_initialized

\* lines 83-85, after the loop has given rd: they are reached only when no
\* row raised
Derive(c, rd) ==
    IF rd.exc # ExcNone
    THEN [cls |-> [c EXCEPT !.marks = rd.marks], exc |-> rd.exc, ran |-> FALSE]
    ELSE [cls |-> [c EXCEPT !.marks = rd.marks,
                            !.marksnoat = NoAtOf(rd.marks),
                            !.markswithsets = WithSetsOf(rd.marks)],
          exc |-> ExcNone, ran |-> TRUE]

\* CpuAssessor.init(marksfile): the class after the call, the exception it
\* raised, and whether it ran to its last line
init(c, f) ==
    IF InitSkips(c) THEN [cls |-> c, exc |-> ExcNone, ran |-> FALSE]
    ELSE IF ~f.readable THEN [cls |-> c, exc |-> ExcOpen, ran |-> FALSE]
    ELSE Derive(c, ReadRows(c.marks, f.rows, 2))

\* a faulty __init__, for C9: line 89 reached also when init raised
FlagSetAlways(r) == TRUE

\* whether __init__ reaches line 89 after a call of init with outcome r
FlagSet(r) == r.exc = ExcNone

\* line 89, when it is reached
SetFlag(r) == IF FlagSet(r) THEN [r EXCEPT !.cls.is_initialized = TRUE] ELSE r

\* CpuAssessor(mf)
New(c, f) == SetFlag(init(c, f))

\* CpuAssessor.assess(cpu): the exception raised, and the value returned if any
assess(c, cpu) ==
    IF ~c.is_initialized THEN [exc |-> ExcNotInit, ret |-> <<>>]
    ELSE [exc |-> ExcNone,
          ret |-> <<nmatch(c.marks, c.marksnoat, c.markswithsets, cpu)>>]

\* the dict of lines 244-253 and 388-397; json.dumps serialises it as it is
ResultJson(error, res, cpu, file) ==
    [error |-> error, mark |-> IntToStr(res.mark), cpustr |-> cpu,
     hint |-> res.step, cpuscsv |-> file, linenum |-> IntToStr(res.nline),
     line |-> res.line, details |-> res.det, message |-> ""]

\* the dict of lines 255-258
ErrorJson(e) ==
    [error |-> TRUE, mark |-> <<>>, cpustr |-> <<>>, hint |-> "",
     cpuscsv |-> "", linenum |-> <<>>, line |-> <<>>, details |-> <<>>,
     message |-> e]

\* the error flag of the dict get_mark_json returns for a result
JsonErrorFlag(ma) == FALSE

\* the error flag of the dict the command line prints with --json
CliErrorFlag(ma) == (ma = 0)


(***************************************************************************)
(* The names, marks and queries the model draws its inputs from.           *)
(***************************************************************************)
\* "AMD A1 B"
nB ==
    <<"A", "M", "D", " ", "A", "1", " ", "B">>

\* "AMD A1 B @ 2G"
nB2 ==
    <<"A", "M", "D", " ", "A", "1", " ", "B", " ", "@", " ", "2", "G">>

\* "AMD A1 B @ 3G"
nB3 ==
    <<"A", "M", "D", " ", "A", "1", " ", "B", " ", "@", " ", "3", "G">>

\* "AMD(R) A1 B"
nRB ==
    <<"A", "M", "D", "(", "R", ")", " ", "A", "1", " ", "B">>

\* "AMD A1"
nA ==
    <<"A", "M", "D", " ", "A", "1">>

\* "Via C3"
nVia ==
    <<"V", "i", "a", " ", "C", "3">>

\* "AMD B A1"
qBA ==
    <<"A", "M", "D", " ", "B", " ", "A", "1">>

\* "AMD B A1 C"
qBAC ==
    <<"A", "M", "D", " ", "B", " ", "A", "1", " ", "C">>

\* "X AMD A1 B w/ Z, Y"
qOem ==
    <<"X", " ", "A", "M", "D", " ", "A", "1", " ", "B", " ", "w", "/",
      " ", "Z", ",", " ", "Y">>

\* "AMD A1 B with G"
qWith ==
    <<"A", "M", "D", " ", "A", "1", " ", "B", " ", "w", "i", "t", "h",
      " ", "G">>

\* "Z80"
qZ80 ==
    <<"Z", "8", "0">>

\* "A1 AMD B"
qAB ==
    <<"A", "1", " ", "A", "M", "D", " ", "B">>

\* "AMD A1 B w/ AMD G"
qTwo ==
    <<"A", "M", "D", " ", "A", "1", " ", "B", " ", "w", "/", " ", "A", "M",
      "D", " ", "G">>

\* "A1"
qA1 ==
    <<"A", "1">>

\* "Intel(R) Core(TM) i7-7500U CPU @ 2.70GHz"
nI7R ==
    <<"I", "n", "t", "e", "l", "(", "R", ")", " ", "C", "o", "r", "e",
      "(", "T", "M", ")", " ", "i", "7", "-", "7", "5", "0", "0", "U",
      " ", "C", "P", "U", " ", "@", " ", "2", ".", "7", "0", "G", "H",
      "z">>

\* "Intel Core i7-7500U @ 2.70GHz"
nI7 ==
    <<"I", "n", "t", "e", "l", " ", "C", "o", "r", "e", " ", "i", "7",
      "-", "7", "5", "0", "0", "U", " ", "@", " ", "2", ".", "7", "0",
      "G", "H", "z">>

\* "Intel(R) Celeron(R) CPU J1900 @ 1.99GHz"
nJ1900R ==
    <<"I", "n", "t", "e", "l", "(", "R", ")", " ", "C", "e", "l", "e",
      "r", "o", "n", "(", "R", ")", " ", "C", "P", "U", " ", "J", "1",
      "9", "0", "0", " ", "@", " ", "1", ".", "9", "9", "G", "H", "z">>

\* "Intel Celeron J1900 @ 1.99GHz"
nJ1900 ==
    <<"I", "n", "t", "e", "l", " ", "C", "e", "l", "e", "r", "o", "n",
      " ", "J", "1", "9", "0", "0", " ", "@", " ", "1", ".", "9", "9",
      "G", "H", "z">>

\* "Intel(R) Celeron(R) CPU  J1900  @ 1.99GHz"
qJ1900 ==
    <<"I", "n", "t", "e", "l", "(", "R", ")", " ", "C", "e", "l", "e",
      "r", "o", "n", "(", "R", ")", " ", "C", "P", "U", " ", " ", "J",
      "1", "9", "0", "0", " ", " ", "@", " ", "1", ".", "9", "9", "G",
      "H", "z">>

\* "0"
m0 ==
    <<"0">>

\* "10"
m10 ==
    <<"1", "0">>

\* "20"
m20 ==
    <<"2", "0">>

\* "30"
m30 ==
    <<"3", "0">>

\* "40"
m40 ==
    <<"4", "0">>

\* "60"
m60 ==
    <<"6", "0">>

\* "70"
m70 ==
    <<"7", "0">>

\* "3641"
m3641 ==
    <<"3", "6", "4", "1">>

\* "1300"
m1300 ==
    <<"1", "3", "0", "0">>

\* "n/a"
mNA ==
    <<"n", "/", "a">>

(***************************************************************************)
(* The marks files.                                                        *)
(***************************************************************************)
Row(nam, m) == [name |-> Str(nam), cpumark |-> Str(m)]

\* the header line csv.DictReader takes the keys of the rows from
HeaderOf(rows) == IF rows = <<>> THEN {"name", "cpumark"} ELSE DOMAIN rows[1]

\* a marks file of the given header line and rows
CsvFile(base, header, rows) ==
    [base |-> base, readable |-> TRUE, header |-> header, rows |-> rows]

File(base, rows) == CsvFile(base, HeaderOf(rows), rows)

\* the rows the generated marks files are made of
RowPool ==
    {Row(nB, m10), Row(nB2, m20), Row(nB3, m30), Row(nB3, m0),
     Row(nRB, m40), Row(nA, m60), Row(nVia, m70)}

\* the longest generated marks file
MaxRows == 3

\* the sequences of at most n rows of the pool, no row twice
RowSeqs(n) ==
    {s \in UNION {[1..h -> RowPool] : h \in 0..n} :
        \A i, j \in 1..Len(s) : i # j => s[i] # s[j]}

GenFiles == {File("cpumarks.csv", rows) : rows \in RowSeqs(MaxRows)}

\* the rows of the scenarios of the specification's section 8
ScenarioRows ==
    {Row(nI7R, m3641), Row(nI7, m3641), Row(nJ1900R, m1300), Row(nJ1900, m1300)}

\* a scenario row alone, or with one row of the pool before or after it
ScenarioFiles ==
    {File("cpumarks.csv", rows) :
        rows \in {<<s>> : s \in ScenarioRows}
                 \cup {<<s, r>> : s \in ScenarioRows, r \in RowPool}
                 \cup {<<r, s>> : s \in ScenarioRows, r \in RowPool}}

MatchFiles == GenFiles \cup ScenarioFiles

MatchQueries ==
    {nB, nB2, nB3, nRB, nA, qBA, qBAC, qOem, qWith, qZ80, qA1, nI7R, qJ1900,
     qTwo}

\* the marks files of the life cycle: two good ones under different column
\* names, one that cannot be opened, one without a name column, one whose
\* second vendor row has a mark that is not a number, one without a mark
\* column, one whose second row is short, one without a mark column and
\* without a row of a known vendor, one with neither column and no row
Files ==
    {File("a.csv", <<Row(nB2, m20), Row(nB, m10)>>),
     File("b.csv", <<[CPUNAME |-> Str(nA), CPUMARK |-> Str(m60)],
                     [CPUNAME |-> Str(nVia), CPUMARK |-> Str(m70)],
                     [CPUNAME |-> Str(nB3), CPUMARK |-> Str(m30)]>>),
     [base |-> "missing.csv", readable |-> FALSE, header |-> {}, rows |-> <<>>],
     File("noname.csv", <<[model |-> Str(nB), cpumark |-> Str(m10)]>>),
     File("badrow.csv", <<Row(nRB, m40), Row(nB, mNA), Row(nA, m60)>>),
     File("nomark.csv", <<[name |-> Str(nVia), score |-> Str(m70)],
                          [name |-> Str(nB), score |-> Str(m10)]>>),
     File("short.csv", <<Row(nB3, m30), [name |-> Str(nB), cpumark |-> NoneVal]>>),
     File("novendor.csv", <<[name |-> Str(nVia), score |-> Str(m70)]>>),
     CsvFile("headeronly.csv", {"model", "score"}, <<>>)}

Queries == {nB, qBA, qZ80, qAB}

\* the most calls of init that read a marks file
MaxAttempts == 2

(***************************************************************************)
(* The calls.  last records the call and what it gave: the exception that  *)
(* reached the caller, the value returned (ret, empty when none), the JSON *)
(* written (out, empty when none) and the exit status of the process.      *)
(***************************************************************************)
Last(op, cpu, file, exc, ret, out, exit) ==
    [op |-> op, cpu |-> cpu, file |-> file, exc |-> exc, ret |-> ret,
     out |-> out, exit |-> exit]

Init ==
    /\ is_initialized = FALSE
    /\ marks = <<>>
    /\ marksnoat = <<>>
    /\ markswithsets = <<>>
    /\ built = FALSE
    /\ attempts = 0
    /\ last = Last("start", <<>>, "", ExcNone, <<>>, <<>>, -1)
    /\ answers = <<>>

\* what a call gives: the class after it, whether init ran to its last line,
\* whether init read a marks file, and the record of the call
Outcome(c, ran, read, l) == [cls |-> c, ran |-> ran, read |-> read, last |-> l]

\* whether a call of init on f, from the class c, reads the file
Reads(c, f) == ~InitSkips(c) /\ f.readable

\* a call of init or of the constructor that gave r
BuildOutcome(op, read, base, r) ==
    Outcome(r.cls, r.ran, read, Last(op, <<>>, base, r.exc, <<>>, <<>>, -1))

\* CpuAssessor.init(f), called by a client
DoInit(c, f) == BuildOutcome("init", Reads(c, f), f.base, init(c, f))

\* CpuAssessor(f), called by a client
DoNew(c, f) == BuildOutcome("CpuAssessor", Reads(c, f), f.base, New(c, f))

\* a faulty assess, for C13: the result is kept in __marksnoat under the query
AssessOutcomeCaching(c, cpu, a) ==
    Outcome(IF a.ret = <<>> THEN c
            ELSE [c EXCEPT !.marksnoat =
                     DictSet(c.marksnoat, cpu, <<a.ret[1].mark, a.ret[1].nline>>)],
            FALSE, FALSE, Last("assess", cpu, "", a.exc, a.ret, <<>>, -1))

\* a call of assess that gave a
AssessOutcome(c, cpu, a) ==
    Outcome(c, FALSE, FALSE, Last("assess", cpu, "", a.exc, a.ret, <<>>, -1))

\* CpuAssessor.assess(cpu), called by a client
DoAssess(c, cpu) == AssessOutcome(c, cpu, assess(c, cpu))

\* lines 244-258: the dict made of what the constructor and assess gave
JsonOf(cpu, base, r, a) ==
    IF r.exc # ExcNone THEN ErrorJson(r.exc)
    ELSE IF a.exc # ExcNone THEN ErrorJson(a.exc)
    ELSE ResultJson(JsonErrorFlag(a.ret[1].mark), a.ret[1], cpu, base)

\* get_mark_json, the constructor having given r
JsonOutcome(read, cpu, base, r, a) ==
    Outcome(r.cls, r.ran, read,
            Last("get_mark_json", cpu, base, ExcNone, <<>>,
                 <<JsonOf(cpu, base, r, a)>>, -1))

JsonAssess(read, cpu, base, r) ==
    JsonOutcome(read, cpu, base, r, assess(r.cls, cpu))

\* get_mark_json(cpu, f): every exception is caught and reported in the JSON
get_mark_json(c, cpu, f) == JsonAssess(Reads(c, f), cpu, f.base, New(c, f))

\* lines 385-398 and 411: assess, the JSON printed, exit status 0
MainPrint(cpu, base, r, a) ==
    Outcome(r.cls, r.ran, TRUE,
            Last("main", cpu, base, ExcNone, <<>>,
                 <<ResultJson(CliErrorFlag(a.ret[1].mark), a.ret[1], cpu, base)>>,
                 0))

\* lines 381-411, the constructor having given r: an exception it raises is
\* not caught, and ends the process with status 1
MainBuilt(cpu, base, r) ==
    IF r.exc # ExcNone
    THEN Outcome(r.cls, r.ran, TRUE, Last("main", cpu, base, r.exc, <<>>, <<>>, 1))
    ELSE MainPrint(cpu, base, r, assess(r.cls, cpu))

\* the command line with --json and without --test; lines 371-374 end the
\* process with status 1 when the marks file cannot be read
main(c, cpu, f) ==
    IF ~f.readable
    THEN Outcome(c, FALSE, FALSE, Last("main", cpu, f.base, ExcNone, <<>>, <<>>, 1))
    ELSE MainBuilt(cpu, f.base, New(c, f))

\* the queries whose first result is kept
Tracked == {qAB}

\* the history after a result was returned for the query cpu: the results
\* kept have had another query answered after them
Overtaken(a, cpu) ==
    [i \in 1..Len(a) |->
        IF a[i].k = cpu THEN a[i] ELSE [a[i] EXCEPT !.between = TRUE]]

\* the history of results after the call recorded as l: the result of a call
\* of assess is added when it is the first for its query
Remember(a, l) ==
    IF l.op # "assess" \/ l.ret = <<>> THEN a
    ELSE IF l.cpu \in Tracked /\ l.cpu \notin DictKeys(a)
    THEN Append(a, [k |-> l.cpu, v |-> l.ret[1], between |-> FALSE])
    ELSE Overtaken(a, l.cpu)

\* the state after a call with outcome o
Apply(o) ==
    /\ is_initialized' = o.cls.is_initialized
    /\ marks' = o.cls.marks
    /\ marksnoat' = o.cls.marksnoat
    /\ markswithsets' = o.cls.markswithsets
    /\ built' = (built \/ o.ran)
    /\ attempts' = IF o.read THEN attempts + 1 ELSE attempts
    /\ last' = o.last
    /\ answers' = Remember(answers, o.last)

\* the process is running, and the call stays within the bound on builds
CanCall == last.op # "main" /\ (InitSkips(Cls) \/ attempts < MaxAttempts)

CallInit(f) == CanCall /\ Apply(DoInit(Cls, f))

CallNew(f) == CanCall /\ Apply(DoNew(Cls, f))

CallAssess(cpu) == last.op # "main" /\ Apply(DoAssess(Cls, cpu))

CallGetMarkJson(cpu, f) == CanCall /\ Apply(get_mark_json(Cls, cpu, f))

\* the module run as a fresh process, which ends with the call
Main(cpu, f) == last.op = "start" /\ Apply(main(Cls, cpu, f))

Next ==
    \/ \E f \in Files : CallInit(f)
    \/ \E f \in Files : CallNew(f)
    \/ \E cpu \in Queries : CallAssess(cpu)
    \/ \E cpu \in Queries, f \in Files : CallGetMarkJson(cpu, f)
    \/ \E cpu \in Queries, f \in Files : Main(cpu, f)

Spec == Init /\ [][Next]_vars

\* one index built by the constructor from a marks file, then queries
NextMatch ==
    \/ last.op = "start" /\ \E f \in MatchFiles : CallNew(f)
    \/ is_initialized /\ \E cpu \in MatchQueries : CallAssess(cpu)

SpecMatch == Init /\ [][NextMatch]_vars

(***************************************************************************)
(* CpuAssessor.test(lmfile): the calibration run over a historical         *)
(* dataset, the dict json.load gives: name -> list of (mark, label), the   *)
(* marks being integers that are not negative.  What it logs and the       *)
(* counters it does not return are left out; the divisions of lines        *)
(* 207-212 are kept for the ZeroDivisionError they raise.                  *)
(***************************************************************************)
ExcZeroDiv == "ZeroDivisionError"

\* the names of MatchStep, lines 33-42
Steps ==
    {"FAILED", "SIMPLE_0", "SIMPLE_1", "SIMPLE_2", "SIMPLE_3", "CLEVER_1",
     "CLEVER_2", "CLEVER_3_1", "CLEVER_3_2", "DESPERATE_1"}

\* the marks of a list of (mark, label)
MarksIn(ourmarks) == {ourmarks[i][1] : i \in 1..Len(ourmarks)}

RECURSIVE SumOf(_)
\* sum(l) for a list of (mark, label)
SumOf(ourmarks) ==
    IF ourmarks = <<>> THEN 0 ELSE Head(ourmarks)[1] + SumOf(Tail(ourmarks))

\* lines 206-212 raise: len(ourmarks), min_, max_ or avg_ is 0
DividesByZero(ourmarks) ==
    \/ ourmarks = <<>>
    \/ SetMin(MarksIn(ourmarks)) = 0
    \/ SetMax(MarksIn(ourmarks)) = 0
    \/ SumOf(ourmarks) \div Len(ourmarks) = 0

RECURSIVE TestLoop(_, _, _, _)
\* a faulty line 231, for C15: a name is a miss when its tier is FAILED
TestNameByTier(c, items, stats, missed, r) ==
    IF r.step # "FAILED"
    THEN IF DividesByZero(Head(items).v)
         THEN [exc |-> ExcZeroDiv, ret |-> <<>>]
         ELSE TestLoop(c, Tail(items), [stats EXCEPT ![r.step] = @ + 1], missed)
    ELSE TestLoop(c, Tail(items), [stats EXCEPT ![r.step] = @ + 1],
                  Append(missed, <<Head(items).k, Head(items).v>>))

\* lines 200-233 for the first of items, for which _nmatch returned r
TestName(c, items, stats, missed, r) ==
    IF r.mark # 0
    THEN IF DividesByZero(Head(items).v)
         THEN [exc |-> ExcZeroDiv, ret |-> <<>>]
         ELSE TestLoop(c, Tail(items), [stats EXCEPT ![r.step] = @ + 1], missed)
    ELSE TestLoop(c, Tail(items), [stats EXCEPT ![r.step] = @ + 1],
                  Append(missed, <<Head(items).k, Head(items).v>>))

\* lines 196-235
TestLoop(c, items, stats, missed) ==
    IF items = <<>>
    THEN [exc |-> ExcNone, ret |-> <<[stats |-> stats, missed |-> missed]>>]
    ELSE TestName(c, items, stats, missed,
                  nmatch(c.marks, c.marksnoat, c.markswithsets, Head(items).k))

\* CpuAssessor.test(lmfile), ournames being what the file holds
test(c, ournames) == TestLoop(c, ournames, [s \in Steps |-> 0], <<>>)

\* the names of the historical datasets, each with its observed marks
OurNames ==
    {[k |-> nB, v |-> <<<<10, "ecodair">>>>],
     [k |-> qBA, v |-> <<<<10, "ecodair">>, <<30, "emmaus">>>>],
     [k |-> qZ80, v |-> <<<<5, "emmaus">>>>],
     [k |-> nB3, v |-> <<<<0, "ecodair">>, <<30, "emmaus">>>>]}

\* the most names in a historical dataset
MaxNames == 3

\* the datasets: their names are distinct, as the keys of a dict are
Datasets ==
    {d \in UNION {[1..n -> OurNames] : n \in 0..MaxNames} :
        \A i, j \in 1..Len(d) : i # j => d[i].k # d[j].k}

\* the marks files of the calibration runs
TestFiles == {File("cpumarks.csv", rows) : rows \in RowSeqs(MaxRows - 1)}

\* a call of test that gave a
TestOutcome(c, d, a) ==
    Outcome(c, FALSE, FALSE, Last("test", d, "", a.exc, a.ret, <<>>, -1))

\* CpuAssessor.test(lmfile), called by a maintainer
DoTest(c, d) == TestOutcome(c, d, test(c, d))

CallTest(d) == last.op \in {"start", "CpuAssessor"} /\ Apply(DoTest(Cls, d))

\* an index built or not, then one calibration run
NextTest ==
    \/ last.op = "start" /\ \E f \in TestFiles : CallNew(f)
    \/ \E d \in Datasets : CallTest(d)

SpecTest == Init /\ [][NextTest]_vars

(***************************************************************************)
(* _keytoset on its own: a name is drawn, then tokenized, and the tokens,  *)
(* sorted and joined with spaces, are tokenized again.                     *)
(***************************************************************************)
\* the characters of the names drawn
NameChars == {"1", "a", "D", "u", "o", " ", "-"}

\* the longest name drawn
MaxNameLen == 4

Names == UNION {[1..n -> NameChars] : n \in 0..MaxNameLen}

\* ord(c), for the characters of the names drawn
Ord(c) ==
    CASE c = " " -> 32 [] c = "-" -> 45 [] c = "1" -> 49 [] c = "D" -> 68
      [] c = "a" -> 97 [] c = "o" -> 111 [] c = "u" -> 117

\* s < t for two str: at the first place where they differ, or s is a
\* proper prefix of t
StrLess(s, t) ==
    \E i \in 1..(Len(t)) :
        /\ \A j \in 1..(i - 1) : j <= Len(s) /\ s[j] = t[j]
        /\ i > Len(s) \/ (i - 1 < Len(s) /\ Ord(s[i]) < Ord(t[i]))

RECURSIVE SortedFrom(_, _)
\* sorted(S), after the least element m of S
SortedFrom(S, m) ==
    <<m>> \o (IF S = {m} THEN <<>>
              ELSE SortedFrom(S \ {m},
                     CHOOSE x \in S \ {m} : \A y \in S \ {m, x} : StrLess(x, y)))

\* sorted(S)
Sorted(S) ==
    IF S = {} THEN <<>>
    ELSE SortedFrom(S, CHOOSE x \in S : \A y \in S \ {x} : StrLess(x, y))

RECURSIVE Join(_)
\* ' '.join(l)
Join(l) ==
    IF l = <<>> THEN <<>>
    ELSE IF Len(l) = 1 THEN l[1]
    ELSE l[1] \o <<" ">> \o Join(Tail(l))

\* the tokens of k, and the tokens of the tokens of k sorted and joined
Retokenized(k, toks) ==
    Last("_keytoset", k, "", ExcNone, <<toks, keytoset(Join(Sorted(toks)))>>, <<>>, -1)

InitName ==
    /\ is_initialized = FALSE
    /\ marks = <<>>
    /\ marksnoat = <<>>
    /\ markswithsets = <<>>
    /\ built = FALSE
    /\ attempts = 0
    /\ answers = <<>>
    /\ \E k \in Names : last = Last("name", k, "", ExcNone, <<>>, <<>>, -1)

CallKeytoset ==
    /\ last.op = "name"
    /\ last' = Retokenized(last.cpu, keytoset(last.cpu))
    /\ UNCHANGED <<is_initialized, marks, marksnoat, markswithsets, built,
                   attempts, answers>>

SpecTokens == InitName /\ [][CallKeytoset]_vars

(***************************************************************************)
(* What the properties below are stated with: the last call was a query    *)
(* that returned, the result it returned, and the candidates of each tier  *)
(* for that query, computed from the indices of the current state.         *)
(***************************************************************************)
Asked == last.op = "assess" /\ last.ret # <<>>

Res == last.ret[1]

QCx1 == Normalize14(last.cpu)

QCx2 == Normalize5(QCx1)

QX == StripMarkers(last.cpu)

QMys == keytoset(QX)

QC1 == Candidates1(markswithsets, QMys)

QC2 == Candidates2(markswithsets, QMys, QX)

QC3 == Candidates3(QC2, QMys)

QC32 == TokenEqual(QC3, QMys)

QC4 == Candidates4(markswithsets, QX)

\* the items of the dict d under the key k whose mark is not 0
Hits(d, k) == {i \in 1..Len(d) : d[i].k = k /\ d[i].v[1] # 0}

NoSimpleAccepts ==
    /\ Hits(marksnoat, last.cpu) = {}
    /\ Hits(marks, QCx1) = {}
    /\ Hits(marks, QCx2) = {}
    /\ Hits(marksnoat, QCx2) = {}

NoTierAccepts ==
    /\ NoSimpleAccepts
    /\ Len(QC1) # 1 /\ Len(QC2) # 1 /\ Len(QC3) # 1
    /\ QC32 = <<>>
    /\ Len(QC4) # 1

\* the number of candidates of the tier that accepted
AcceptedAmong ==
    CASE Res.step = "SIMPLE_0" -> Cardinality(Hits(marksnoat, last.cpu))
      [] Res.step = "SIMPLE_1" -> Cardinality(Hits(marks, QCx1))
      [] Res.step = "SIMPLE_2" -> Cardinality(Hits(marks, QCx2))
      [] Res.step = "SIMPLE_3" -> Cardinality(Hits(marksnoat, QCx2))
      [] Res.step = "CLEVER_1" -> Len(QC1)
      [] Res.step = "CLEVER_2" -> Len(QC2)
      [] Res.step = "CLEVER_3_1" -> Len(QC3)
      [] Res.step = "CLEVER_3_2" -> Len(QC32)
      [] Res.step = "DESPERATE_1" -> Len(QC4)
      [] OTHER -> 0

\* the keys of the exact index, in order
MarkKeys == KeysOf(marks)

\* the stripped prefix of the i-th key of the exact index
Prefix(i) == Strip(SplitFirst(marks[i].k, sAt))

(***************************************************************************)
(* C1: _nmatch never guesses: whenever it returns a tier other than FAILED,*)
(* the candidate set of the accepting tier held exactly one reference      *)
(* entry (CLEVER_3_2 included, whose candidates are the narrowed entries   *)
(* with a clock-stripped token set equal to the query's).                  *)
(***************************************************************************)
C1_NeverGuesses == (Asked /\ Res.step # "FAILED") => AcceptedAmong = 1

(***************************************************************************)
(* C2: for every key N of the exact index without "@", Match(N) returns    *)
(* tier SIMPLE_0 or SIMPLE_1 and the mark recorded for N itself.           *)
(***************************************************************************)
C2_VerbatimName ==
    (Asked /\ ~Contains(last.cpu, sAt) /\ last.cpu \in DictKeys(marks))
        => /\ Res.step \in {"SIMPLE_0", "SIMPLE_1"}
           /\ Res.mark = DictGet(marks, last.cpu, <<0, 0>>)[1]

(***************************************************************************)
(* C3, as stated: for every reference name N with an "@", the query N      *)
(* stripped of its "@" suffix returns SIMPLE_0 and the mark recorded for   *)
(* N, also when two reference names share the stripped name.               *)
(***************************************************************************)
C3_StrippedName ==
    Asked =>
        \A i \in 1..Len(marks) :
            (Contains(marks[i].k, sAt) /\ Prefix(i) = last.cpu)
                => Res.step = "SIMPLE_0" /\ Res.mark = marks[i].v[1]

\* N is the last key of the exact index with its stripped name
LastOfPrefix(i) ==
    /\ Contains(marks[i].k, sAt)
    /\ \A j \in (i + 1)..Len(marks) :
          ~(Contains(marks[j].k, sAt) /\ Prefix(j) = Prefix(i))

(***************************************************************************)
(* C3, amended: for every reference name N with an "@" whose mark is not 0 *)
(* and that is the last key of the exact index, in insertion order, among  *)
(* those with the same stripped name, the query N stripped of its "@"      *)
(* suffix returns SIMPLE_0, the mark and the line recorded for N.          *)
(***************************************************************************)
C3_StrippedNameLast ==
    Asked =>
        \A i \in 1..Len(marks) :
            (LastOfPrefix(i) /\ Prefix(i) = last.cpu /\ marks[i].v[1] # 0)
                => /\ Res.step = "SIMPLE_0"
                   /\ Res.mark = marks[i].v[1]
                   /\ Res.nline = marks[i].v[2]

\* C3's case: the stripped name of two reference names with different marks
\* is queried, and the last of them has a mark that is not 0
C3_Witness ==
    /\ Asked
    /\ \E i, j \in 1..Len(marks) :
          /\ j < i /\ LastOfPrefix(i) /\ marks[i].v[1] # 0
          /\ Contains(marks[j].k, sAt)
          /\ Prefix(j) = last.cpu /\ Prefix(i) = last.cpu
          /\ marks[j].v[1] # marks[i].v[1]

\* the tiers up to CLEVER_1, in the order of the cascade
UpToClever1 == {"SIMPLE_0", "SIMPLE_1", "SIMPLE_2", "SIMPLE_3", "CLEVER_1"}

\* the tiers after CLEVER_1
AfterClever1 == {"CLEVER_2", "CLEVER_3_1", "CLEVER_3_2", "DESPERATE_1"}

\* the exact index records the mark m for the name n
Recorded(n, m) == DictGet(marks, n, <<0, 0>>)[1] = m

C5_Scenario ==
    (Asked /\ last.cpu = qJ1900 /\ MarkKeys = <<nJ1900R>>
           /\ Recorded(nJ1900R, ParseInt(m1300)))
        => Res.mark = ParseInt(m1300) /\ Res.step \in UpToClever1

(***************************************************************************)
(* C5, amended: with reference data containing only that row, the query    *)
(* returns mark 1300 with tier DESPERATE_1, the last tier of the cascade;  *)
(* it returns mark 1300 with tier CLEVER_1 when the only row is the name   *)
(* without the markers, "Intel Celeron J1900 @ 1.99GHz".                   *)
(***************************************************************************)
C5_ScenarioAmended ==
    /\ (Asked /\ last.cpu = qJ1900 /\ MarkKeys = <<nJ1900R>>
             /\ Recorded(nJ1900R, ParseInt(m1300)))
          => /\ Res.mark = ParseInt(m1300)
             /\ Res.step = "DESPERATE_1"
             /\ Res.line = nJ1900R
    /\ (Asked /\ last.cpu = qJ1900 /\ MarkKeys = <<nJ1900>>
             /\ Recorded(nJ1900, ParseInt(m1300)))
          => /\ Res.mark = ParseInt(m1300)
             /\ Res.step = "CLEVER_1"
             /\ Res.line = nJ1900

\* C5's case: the query is made on the index built from the scenario's row
C5_Witness ==
    /\ Asked /\ last.cpu = qJ1900 /\ MarkKeys = <<nJ1900R>>
    /\ Recorded(nJ1900R, ParseInt(m1300))
    /\ Res.mark = ParseInt(m1300)

(***************************************************************************)
(* C6: whenever no tier of the cascade accepts, Match returns mark 0, tier *)
(* FAILED, line 0, an empty matched name and the diagnostics made of the   *)
(* query's token set and of the candidate lists of CLEVER_1, CLEVER_2,     *)
(* CLEVER_3 and DESPERATE; every result whose tier is not FAILED has no    *)
(* diagnostics.                                                            *)
(***************************************************************************)
C6_FailedResult ==
    Asked =>
        /\ NoTierAccepts =>
              /\ Res.mark = 0 /\ Res.step = "FAILED" /\ Res.nline = 0
              /\ Res.line = <<>>
              /\ Res.det # <<>>
              /\ Res.det = <<[x |-> QX, mys |-> QMys], QC1, QC2, QC3, QC4>>
        /\ Res.step # "FAILED" => Res.det = <<>>

\* C6's case: a query no tier accepts, two of them for having too many
\* candidates
C6_Witness ==
    Asked /\ NoTierAccepts /\ Len(QC1) >= 2 /\ Len(QC4) >= 2

(***************************************************************************)
(* C7: a query whose token set includes the token sets of two or more      *)
(* reference entries, and that no SIMPLE tier accepts, never returns tier  *)
(* CLEVER_1: it returns a later tier or FAILED.                            *)
(***************************************************************************)
C7_AmbiguousClever1 ==
    (Asked /\ Len(QC1) >= 2 /\ NoSimpleAccepts)
        => Res.step # "CLEVER_1" /\ Res.step \in AfterClever1 \cup {"FAILED"}

\* C7's case: such a query, which a later tier accepts
C7_Witness ==
    Asked /\ Len(QC1) >= 2 /\ NoSimpleAccepts /\ Res.step \in AfterClever1

\* the last call wrote the JSON of a query that no tier accepted
UnmatchedJson ==
    /\ last.op \in {"get_mark_json", "main"}
    /\ last.out # <<>>
    /\ last.out[1].hint = "FAILED"

(***************************************************************************)
(* C8: an unmatched query is a normal result on both structured output     *)
(* paths: get_mark_json and the command line with --json give the error    *)
(* flag false, mark "0", hint "FAILED", line number "0" and an empty       *)
(* matched name, and no exception is raised.                               *)
(***************************************************************************)
C8_UnmatchedNotError ==
    UnmatchedJson =>
        /\ last.exc = ExcNone
        /\ last.out[1].error = FALSE
        /\ last.out[1].mark = <<"0">>
        /\ last.out[1].linenum = <<"0">>
        /\ last.out[1].line = <<>>

(***************************************************************************)
(* C9: a query through assess made while no call of init has run to its    *)
(* last line (none was made, or those made raised) raises the "must be     *)
(* initialized before use" error and returns nothing.                      *)
(***************************************************************************)
C9_AssessBeforeBuild ==
    (last.op = "assess" /\ ~built) => last.exc = ExcNotInit /\ last.ret = <<>>

\* C9's case: a query made after a build that read a file and raised
C9_Witness ==
    last.op = "assess" /\ ~built /\ attempts > 0 /\ marks # <<>>

(***************************************************************************)
(* C10: once a call of init has run to its last line, every further build  *)
(* call, init or the constructor, on any file, raises nothing and leaves   *)
(* the exact, no-frequency and token-set indices as they were.             *)
(***************************************************************************)
C10_RebuildNoOp ==
    [][(built /\ last'.op \in {"init", "CpuAssessor"})
          => /\ last'.exc = ExcNone
             /\ marks' = marks
             /\ marksnoat' = marksnoat
             /\ markswithsets' = markswithsets]_vars

\* the marks file of the last call
FileOf(base) == CHOOSE f \in Files : f.base = base

\* the elements of a tuple
Range(s) == {s[i] : i \in 1..Len(s)}

\* the header of f has none of the name aliases, or none of the mark aliases
LacksAlias(f) ==
    \/ f.header \cap Range(NameAliases) = {}
    \/ f.header \cap Range(MarkAliases) = {}

\* the step is a build call, init or the constructor, that read its file
BuildStep == last'.op \in {"init", "CpuAssessor"} /\ attempts' = attempts + 1

(***************************************************************************)
(* C11: a build from a marks file whose rows have none of the name aliases *)
(* or none of the mark aliases always raises one of the two "Unable to     *)
(* guess which column" errors, whatever the rows, also when no row is of a *)
(* known vendor and when there is no row.                                  *)
(***************************************************************************)
C11_MissingAliasFails ==
    [][(BuildStep /\ LacksAlias(FileOf(last'.file)))
          => last'.exc \in {ExcNoNameCol, ExcNoMarkCol}]_vars

\* the value of the row r under the first of the aliases it has
Field(r, aliases) == r[FirstAlias(r, aliases)]

\* the name of the row r is a text with the name of a known vendor in it
VendorRow(r) ==
    /\ FirstAlias(r, NameAliases) # ""
    /\ ~Field(r, NameAliases).none
    /\ \/ Contains(Field(r, NameAliases).s, sIntel)
       \/ Contains(Field(r, NameAliases).s, sAMD)

\* the row r has a mark column
HasMark(r) == FirstAlias(r, MarkAliases) # ""

\* the mark of the row r is the text of an integer
IntMark(r) ==
    HasMark(r) /\ ~Field(r, MarkAliases).none /\ IsIntText(Field(r, MarkAliases).s)

\* a row of a known vendor whose mark is missing or is not an integer
BadMarkRow(r) == VendorRow(r) /\ HasMark(r) /\ ~IntMark(r)

\* the rows of the marks file of the last call
RowsOf(base) == Range(FileOf(base).rows)

(***************************************************************************)
(* C12: a build from a marks file with a row of a known vendor whose mark  *)
(* is missing or is not an integer does not raise: it completes, and the   *)
(* exact index has the name of every row of a known vendor whose mark is   *)
(* an integer.                                                             *)
(***************************************************************************)
C12_BadRowSkipped ==
    [][(BuildStep /\ \E r \in RowsOf(last'.file) : BadMarkRow(r))
          => /\ last'.exc = ExcNone
             /\ \A r \in RowsOf(last'.file) :
                   (VendorRow(r) /\ IntMark(r))
                       => Field(r, NameAliases).s \in DictKeys(marks')]_vars

\* the three indices
Indices == <<marks, marksnoat, markswithsets>>

\* the first result assess returned for the query q
FirstAnswer(q) == DictGet(answers, q, <<>>)

(***************************************************************************)
(* C13: a call of assess changes none of the three indices, and a call     *)
(* that returns gives, for a query answered before, the result (mark,      *)
(* tier, line, matched name, diagnostics) of the first answer, whatever    *)
(* the calls made in between.                                              *)
(***************************************************************************)
C13_SameAnswer ==
    [][(last'.op = "assess")
          => /\ Indices' = Indices
             /\ (last'.ret # <<>> /\ last'.cpu \in DictKeys(answers))
                   => last'.ret[1] = FirstAnswer(last'.cpu)]_vars

\* C13's case: a query answered before is asked again after another query
\* was answered, and a tier accepts it
C13_Witness ==
    /\ Asked /\ Res.step # "FAILED"
    /\ \E i \in 1..Len(answers) : answers[i].k = last.cpu /\ answers[i].between

(***************************************************************************)
(* C14: _keytoset is idempotent on its own output: for every name, the     *)
(* tokens of its tokens, sorted and joined with spaces, are its tokens.    *)
(***************************************************************************)
C14_Idempotent == last.op = "_keytoset" => last.ret[2] = last.ret[1]

\* C14's case: a name of two tokens, one of digits and letters, which is
\* split into its digits and each of its letters
C14_Witness ==
    /\ last.op = "_keytoset"
    /\ Cardinality(Tokens(last.cpu)) = 2
    /\ \E tok \in Tokens(last.cpu) :
          /\ tok \notin last.ret[1]
          /\ SubSeq(tok, 1, 1) \in last.ret[1]
          /\ Cardinality(last.ret[1]) >= 3

\* the last call was a calibration run that returned
Tested == last.op = "test" /\ last.ret # <<>>

\* what _nmatch returns for the i-th name of the dataset of the last call
TierOf(i) == nmatch(marks, marksnoat, markswithsets, last.cpu[i].k)

\* the names of the dataset of the last call have lists of observed marks
\* that are not empty, with positive marks
PositiveMarks ==
    \A i \in 1..Len(last.cpu) :
        /\ last.cpu[i].v # <<>>
        /\ \A m \in MarksIn(last.cpu[i].v) : m > 0

RECURSIVE Total(_, _)
\* the sum of the counts of stats over the tiers of S
Total(stats, S) ==
    IF S = {} THEN 0
    ELSE LET s == CHOOSE s \in S : TRUE IN stats[s] + Total(stats, S \ {s})

\* the places in the dataset of the last call of the names _nmatch gives
\* mark 0, in order
RECURSIVE MissesFrom(_)
MissesFrom(i) ==
    IF i > Len(last.cpu) THEN <<>>
    ELSE (IF TierOf(i).mark = 0
          THEN <<(<<last.cpu[i].k, last.cpu[i].v>>)>> ELSE <<>>)
         \o MissesFrom(i + 1)

(***************************************************************************)
(* C15: for a historical dataset of N names whose lists of observed marks  *)
(* are not empty and hold positive marks, the calibration run returns      *)
(* counts per tier that sum to N, each name counted under the tier         *)
(* _nmatch returns for it, and a miss list that holds exactly the names    *)
(* for which _nmatch returns mark 0, each with its (mark, label) pairs,    *)
(* in the order of the dataset.                                            *)
(***************************************************************************)
C15_Calibration ==
    (last.op = "test" /\ PositiveMarks) =>
        /\ Tested
        /\ DOMAIN last.ret[1].stats = Steps
        /\ Total(last.ret[1].stats, Steps) = Len(last.cpu)
        /\ \A s \in Steps :
              last.ret[1].stats[s] =
                  Cardinality({i \in 1..Len(last.cpu) : TierOf(i).step = s})
        /\ last.ret[1].missed = MissesFrom(1)

\* C15's case: a run over three names, one that no tier accepts, one that a
\* tier accepts with a mark, one that a tier accepts with mark 0
C15_Witness ==
    /\ Tested /\ PositiveMarks /\ Len(last.cpu) = 3
    /\ last.ret[1].stats["FAILED"] = 1
    /\ Len(last.ret[1].missed) = 2

\* the tiers in the order of the cascade
CascadeOrder ==
    <<"SIMPLE_0", "SIMPLE_1", "SIMPLE_2", "SIMPLE_3", "CLEVER_1", "CLEVER_2",
      "CLEVER_3_1", "CLEVER_3_2", "DESPERATE_1">>

\* the acceptance condition of the i-th tier holds for the query asked
Accepts(i) ==
    CASE i = 1 -> Hits(marksnoat, last.cpu) # {}
      [] i = 2 -> Hits(marks, QCx1) # {}
      [] i = 3 -> StartsWith(QCx1, sAMD) /\ Hits(marks, QCx2) # {}
      [] i = 4 -> Hits(marksnoat, QCx2) # {}
      [] i = 5 -> Len(QC1) = 1
      [] i = 6 -> Len(QC2) = 1
      [] i = 7 -> Len(QC3) = 1
      [] i = 8 -> QC32 # <<>>
      [] i = 9 -> Len(QC4) = 1

\* the name the i-th tier accepts, when its acceptance condition holds
Accepted(i) ==
    CASE i = 1 -> last.cpu
      [] i = 2 -> QCx1
      [] i \in {3, 4} -> QCx2
      [] i = 5 -> QC1[1]
      [] i = 6 -> QC2[1]
      [] i = 7 -> QC3[1]
      [] i = 8 -> QC32[1]
      [] i = 9 -> QC4[1]

\* the tiers whose acceptance condition holds
Accepting == {i \in 1..Len(CascadeOrder) : Accepts(i)}

\* the result is that of the i-th tier
ReturnsTier(i) == Res.step = CascadeOrder[i] /\ Res.line = Accepted(i)

\* the result is that of the earliest of the tiers of acc, FAILED if none
ReturnsEarliest(acc) ==
    IF acc = {} THEN Res.step = "FAILED" ELSE ReturnsTier(SetMin(acc))

(***************************************************************************)
(* C16: the tier Match returns is the earliest tier, in the order SIMPLE_0,*)
(* SIMPLE_1, SIMPLE_2, SIMPLE_3, CLEVER_1, CLEVER_2, CLEVER_3_1,           *)
(* CLEVER_3_2, DESPERATE_1, whose acceptance condition holds for the       *)
(* query, with the name that tier accepts; it is FAILED when none holds.   *)
(***************************************************************************)
C16_EarliestTier == Asked => ReturnsEarliest(Accepting)

\* C16's case: the acceptance conditions of SIMPLE_0 and of two later tiers
\* hold for the query
C16_Witness ==
    Asked /\ 1 \in Accepting /\ Cardinality(Accepting) >= 3

\* the places in cx where the name of a vendor begins
VendorAt(cx) == Occ(cx, sIntel) \cup Occ(cx, sAMD)

\* cx of lines 115-123 if the text kept began at the first name of a vendor
NormalizeFromFirst(x) ==
    SplitFirst(Strip(SplitFirst(Suffix(StripMarkers(x),
                                       SetMin(VendorAt(StripMarkers(x)))), sW)),
               sComma)

(***************************************************************************)
(* C17: in the normalisation of SIMPLE_1 to SIMPLE_3, when the query       *)
(* stripped of its markers has the name of a vendor, "Intel" or "AMD", the *)
(* text kept begins at the first place where one occurs, also when         *)
(* several occur.                                                          *)
(***************************************************************************)
C17_KeepFromFirst ==
    (Asked /\ VendorAt(QX) # {}) => QCx1 = NormalizeFromFirst(last.cpu)

(***************************************************************************)
(* C18: for every result of Match whose tier is not FAILED, SIMPLE_0 and   *)
(* SIMPLE_3 included, the matched name is a key of the exact index, and    *)
(* the mark and the line returned are those the exact index has for it.    *)
(***************************************************************************)
C18_CanonicalName ==
    (Asked /\ Res.step # "FAILED")
        => /\ Res.line \in DictKeys(marks)
           /\ <<Res.mark, Res.nline>> = DictGet(marks, Res.line, <<0, 0>>)

(***************************************************************************)
(* C19: for every index the build accepts and every name of a calibration  *)
(* run, Match returns mark 0 if and only if it returns tier FAILED, and    *)
(* the count of the run for FAILED is the length of its miss list.         *)
(***************************************************************************)
C19_ZeroIffFailed ==
    Tested =>
        /\ \A i \in 1..Len(last.cpu) :
              TierOf(i).mark = 0 <=> TierOf(i).step = "FAILED"
        /\ last.ret[1].stats["FAILED"] = Len(last.ret[1].missed)

\* the names of the rows of a known vendor of the marks file of the last call
VendorNames(base) ==
    {Field(r, NameAliases).s : r \in {r \in RowsOf(base) : VendorRow(r)}}

(***************************************************************************)
(* C20: when the builds made so far raised and a build from another marks  *)
(* file completes, the exact index after it holds exactly the rows of a    *)
(* known vendor of that file, nothing a failed build inserted being left,  *)
(* and the no-frequency and token-set indices are derived from it.         *)
(***************************************************************************)
C20_FailedBuildLeavesNothing ==
    [][(BuildStep /\ ~built /\ attempts > 0 /\ last'.exc = ExcNone)
          => /\ DictKeys(marks') = VendorNames(last'.file)
             /\ marksnoat' = NoAtOf(marks')
             /\ markswithsets' = WithSetsOf(marks')]_vars

=============================================================================
